---- MODULE Spec2Model ----
(***************************************************************************)
(* The application manager of rcore/appmanager.c: the manifest, the start  *)
(* and quit handshake between callers, the supervisor task                 *)
(* (_appmanager_app_thread) and the application task (app_event_loop),     *)
(* and the loader that copies, relocates and partitions the arena.         *)
(***************************************************************************)
EXTENDS Integers, Sequences, FiniteSets, TLC

(***************************************************************************)
(* Bounds of the exploration.                                              *)
(***************************************************************************)
\* start() calls made after boot, in the lifecycle specification
MaxStarts == 1
\* post_button / quit calls made after boot, there
MaxPosts == 2
\* post_tick calls the tick interrupt makes after boot, there
MaxTicks == 3
\* start() calls made after boot, in the specification with fairness
MaxFairStarts == 2
\* post_button / quit calls made after boot, there
MaxFairPosts == 1
\* post_tick calls the tick interrupt makes after boot, there
MaxFairTicks == 1
\* start() calls made after boot, in the loader specification
MaxLoadStarts == 1
\* calls of the flash scan, in the manifest specification
MaxScans == 2

(***************************************************************************)
(* Program constants.  The arena and the stack are scaled down: the        *)
(* arithmetic of the loader is kept at its 32-bit width.                   *)
(***************************************************************************)
\* xQueueCreate(5, ...) of _app_message_queue
MESSAGE_QUEUE_LENGTH == 5
\* xQueueCreate(1, ...) of _app_thread_queue
THREAD_QUEUE_LENGTH == 1
\* for (i = 0; i < 32; i++) of the flash scan
MAX_SLOTS == 32
\* bytes of app_stack_heap.byte_buf
MAX_APP_MEMORY_SIZE == 32
\* words of the application stack
MAX_APP_STACK_SIZE == 2

APP_TYPE_SYSTEM == "SYSTEM"
APP_TYPE_FACE == "FACE"

(***************************************************************************)
(* uint32_t values, as two 16-bit halves: TLC's integers are narrower     *)
(* than 2^32.                                                              *)
(***************************************************************************)
W16 == 256 * 256

U32 == [hi : 0..(W16 - 1), lo : 0..(W16 - 1)]

\* a small natural as a uint32_t
ToU32(n) == [hi |-> (n \div W16) % W16, lo |-> n % W16]

\* the value of a uint32_t below 2^31
ToInt(a) == a.hi * W16 + a.lo

IsSmall(a) == a.hi < 32768

Add32(a, b) ==
    LET lo == a.lo + b.lo
        hi == a.hi + b.hi + (lo \div W16)
    IN  [hi |-> hi % W16, lo |-> lo % W16]

Sub32(a, b) ==
    LET lo == a.lo - b.lo
        borrow == IF lo < 0 THEN 1 ELSE 0
        hi == a.hi - b.hi - borrow
    IN  [hi |-> hi % W16, lo |-> lo % W16]

Div4(a) == [hi |-> a.hi \div 4, lo |-> (a.lo \div 4) + (a.hi % 4) * 16384]

Mul4(a) ==
    LET lo == a.lo * 4
        hi == a.hi * 4 + (lo \div W16)
    IN  [hi |-> hi % W16, lo |-> lo % W16]

Lt32(a, b) == a.hi < b.hi \/ (a.hi = b.hi /\ a.lo < b.lo)

Le32(a, b) == a = b \/ Lt32(a, b)

\* the four bytes of a uint32_t, least significant first
BytesOf(a) == << a.lo % 256, a.lo \div 256, a.hi % 256, a.hi \div 256 >>

\* (uintptr_t) app_stack_heap.word_buf
ARENA_BASE == [hi |-> 8192, lo |-> 1024]

\* (uint32_t) sym, the address of the host symbol table
SYM_ADDR == [hi |-> 2049, lo |-> 9029]

ArenaIdx == 0..(MAX_APP_MEMORY_SIZE - 1)

(***************************************************************************)
(* Names are sequences of characters.                                      *)
(***************************************************************************)
NameSystem == << "S", "y", "s", "t", "e", "m" >>
NameSimple == << "S", "i", "m", "p", "l", "e" >>
NameNiVZ == << "N", "i", "V", "Z" >>
NameTestApp == << "T", "e", "s", "t", "A", "p", "p" >>
NameNope == << "N", "o", "p", "e" >>
NameS == << "S" >>
NameSys == << "S", "y", "s" >>
NameTestApp2 == << "T", "e", "s", "t", "A", "p", "p", "2" >>

\* character i of a C string: the terminator from its end on
CharAt(s, i) == IF i <= Len(s) THEN s[i] ELSE "NUL"

RECURSIVE strncmp_from(_, _, _, _)
\* strncmp from character i on: 0 when n characters agree or both strings end
strncmp_from(a, b, n, i) ==
    IF i > n THEN 0
    ELSE IF CharAt(a, i) # CharAt(b, i) THEN 1
    ELSE IF CharAt(a, i) = "NUL" THEN 0
    ELSE strncmp_from(a, b, n, i + 1)

\* strncmp(a, b, n): 0 for equal, 1 for any other result
strncmp(a, b, n) == strncmp_from(a, b, n, 1)

\* a comparison of the whole strings, strcmp(stored, query) == 0
NameEquals(stored, query) == stored = query

\* !strncmp(node->name, app_name, strlen(node->name))
NameMatches(stored, query) == strncmp(stored, query, Len(stored)) = 0

\* the NULL that _appmanager_create_app returns when an allocation fails
NULL_APP == [null |-> TRUE]

\* calloc: the heap, as the number of allocations it can still serve
calloc(heap) == heap > 0

\* _appmanager_create_app on a heap of that many allocations: NULL when the
\* calloc of the App or the calloc of its name fails
create_app(name, type, main, is_internal, slot_id, heap) ==
    IF ~calloc(heap) THEN NULL_APP
    ELSE IF ~calloc(heap - 1) THEN NULL_APP
    ELSE [name |-> name, type |-> type, main |-> main,
          is_internal |-> is_internal, slot_id |-> slot_id]

\* the heap _appmanager_create_app leaves: nothing is freed on failure
heap_after_create(heap) == IF heap >= 2 THEN heap - 2 ELSE 0

\* _appmanager_add_to_manifest: link the node after the last child; a NULL
\* node leaves the list as it was
add_to_manifest(manifest, app) ==
    IF app = NULL_APP THEN manifest ELSE Append(manifest, app)

\* _appmanager_add_to_manifest(_appmanager_create_app(...)), on the manifest
\* and the heap of st
add_app(st, name, type, main, is_internal, slot_id) ==
    [manifest |-> add_to_manifest(st.manifest,
                      create_app(name, type, main, is_internal, slot_id, st.heap)),
     heap |-> heap_after_create(st.heap)]

\* the signature an application header starts with
Magic == << "P", "B", "L", "A", "P", "P" >>

\* a flash slot that holds no application: its header field is empty
NoApp == [header |-> << >>]

\* flash_load_app_header(i, &header), !strncmp(header.header, "PBLAPP", 6)
HasMagic(slot) == strncmp(slot.header, Magic, 6) = 0

RECURSIVE flash_load_app_manifest_from(_, _, _)
\* the for loop of the scan from slot i on, st the manifest and the heap
flash_load_app_manifest_from(fl, st, i) ==
    IF i >= MAX_SLOTS THEN st
    ELSE flash_load_app_manifest_from(
             fl,
             IF HasMagic(fl[i])
             THEN add_app(st, fl[i].name, APP_TYPE_FACE, "NULL", FALSE, i)
             ELSE st,
             i + 1)

\* _appmanager_flash_load_app_manifest
flash_load_app_manifest(fl, st) == flash_load_app_manifest_from(fl, st, 0)

\* appmanager_init: load the baked in apps
load_builtins(st) ==
    add_app(
        add_app(
            add_app(st, NameSystem, APP_TYPE_SYSTEM, "systemapp_main", TRUE, 0),
            NameSimple, APP_TYPE_FACE, "simple_main", TRUE, 0),
        NameNiVZ, APP_TYPE_FACE, "nivz_main", TRUE, 0)

\* a heap that serves every allocation of the initialisation and of the scans
AmpleHeap == 2 * (3 + (MaxScans * 4))

\* the manifest appmanager_init builds when no allocation fails: the baked
\* in apps, then the flash
init_manifest(fl) ==
    flash_load_app_manifest(fl,
        load_builtins([manifest |-> << >>, heap |-> AmpleHeap])).manifest

RECURSIVE get_app_from(_, _, _)
\* the while (node) loop of appmanager_get_app, from node on
get_app_from(manifest, app_name, node) ==
    IF node > Len(manifest) THEN 0
    ELSE IF NameMatches(manifest[node].name, app_name) THEN node
    ELSE get_app_from(manifest, app_name, node + 1)

\* appmanager_get_app: the walk from _app_manifest_head, 0 for NULL
get_app(manifest, app_name) == get_app_from(manifest, app_name, 1)

(***************************************************************************)
(* Flash images.  A slot holds the header fields the loader reads and the  *)
(* bytes that follow the header: the app binary, then the reloc table.     *)
(***************************************************************************)
RECURSIVE WordsToBytes(_)
WordsToBytes(ws) ==
    IF ws = << >> THEN << >> ELSE BytesOf(Head(ws)) \o WordsToBytes(Tail(ws))

RECURSIVE OffsetsToWords(_)
OffsetsToWords(rs) ==
    IF rs = << >> THEN << >> ELSE << ToU32(Head(rs)) >> \o OffsetsToWords(Tail(rs))

MkImage(name, words, relocs, vsz, sym, off) ==
    [header |-> Magic, name |-> name,
     app_size |-> 4 * Len(words),
     virtual_size |-> vsz,
     reloc_entries_count |-> Len(relocs),
     sym_table_addr |-> sym,
     offset |-> off,
     data |-> WordsToBytes(words) \o WordsToBytes(OffsetsToWords(relocs))]

\* values an image word may hold before relocation
ImageVals ==
    { ToU32(0), ToU32(4), ToU32(6), ToU32(MAX_APP_MEMORY_SIZE),
      [hi |-> W16 - 1, lo |-> W16 - 4] }

ImageCode ==
    { << a, b >> : a \in ImageVals, b \in ImageVals }
        \cup { << a, b, ToU32(0) >> : a \in ImageVals, b \in ImageVals }

ImageRelocs == { << >>, << 0 >>, << 4 >>, << 0, 4 >>, << 4, 0 >> }

\* images that fill the arena, or all of it but its last word
LongCode ==
    { << ToU32(12), ToU32(16), ToU32(0), ToU32(0), ToU32(0), ToU32(0), ToU32(0) >>,
      << ToU32(12), ToU32(0), ToU32(0), ToU32(0), ToU32(0), ToU32(0), ToU32(0),
         ToU32(0) >> }

\* an image half as large again as the arena
LongestCode ==
    << ToU32(8), ToU32(4), ToU32(0), ToU32(0), ToU32(0), ToU32(0), ToU32(0),
       ToU32(0), ToU32(0), ToU32(0), ToU32(0), ToU32(0) >>

\* images whose reloc table the load puts across the end of the arena or past it
LongImages ==
    { MkImage(NameTestApp, w, r, v, 8, 4) :
        w \in LongCode, r \in { << 0 >>, << 0, 4 >> }, v \in { 28, 32 } }
        \cup { MkImage(NameTestApp, LongestCode, r, 48, 0, 4) :
                   r \in { << 0 >>, << 4, 0 >> } }

\* the offset whose rebase is 4: the sum wraps around
WrapWord == Sub32(ToU32(4), ARENA_BASE)

\* images with a reloc entry that names a word of the reloc table itself:
\* the entry at that word, one an earlier pass read, or the one the next pass
\* reads, which then names word 1 of the arena
SelfRelocImages ==
    { MkImage(NameTestApp, << ToU32(4), ToU32(0) >>, r, 16, 0, 4) :
        r \in { << 8 >>, << 0, 8 >> } }
        \cup { [MkImage(NameTestApp, << ToU32(4), ToU32(0) >>, << 12, 0 >>, 16, 0, 4)
                   EXCEPT !.data = WordsToBytes(<< ToU32(4), ToU32(0), ToU32(12),
                                                    WrapWord >>)] }

\* the flash contents the loader specification draws from
LoadImages ==
    { MkImage(NameTestApp, w, r, v, s, 4) :
        w \in ImageCode, r \in ImageRelocs,
        v \in { 8, 12, 16, 20, 28, 40 }, s \in { 0, 4, 8 } }
        \cup LongImages \cup SelfRelocImages

\* the flash contents the lifecycle specification draws from
LifeImages ==
    { MkImage(NameTestApp, << ToU32(4), ToU32(0) >>, << 0 >>, 16, 4, 4) }

FlashSlots == { 7 }

\* the slots of the flash: one more than the scan probes
FlashIdx == 0..MAX_SLOTS

FlashWith(slot, img) == [i \in FlashIdx |-> IF i = slot THEN img ELSE NoApp]

\* an image of no code, as the scan sees it
ScanImage(name, header) ==
    [MkImage(name, << ToU32(0), ToU32(0) >>, << >>, 8, 0, 4) EXCEPT !.header = header]

\* what a slot may hold in the boot and manifest specifications: nothing, a
\* header that misses the signature by a character, and apps, one of them
\* with the eight characters of its header field in use
SlotKinds ==
    { NoApp,
      ScanImage(NameTestApp, << "P", "B", "L", "A", "P", "Q" >>),
      ScanImage(NameTestApp, Magic),
      ScanImage(NameS, Magic \o << "0", "1" >>),
      ScanImage(NameSystem, Magic) }

\* the slots the boot and manifest specifications fill
ProbeSlots == { 0, 7, MAX_SLOTS - 1, MAX_SLOTS }

ScanFlashes ==
    { [i \in FlashIdx |-> IF i \in ProbeSlots THEN f[i] ELSE NoApp] :
        f \in [ProbeSlots -> SlotKinds] }

\* the names callers pass to appmanager_get_app
QueryNames == { NameSystem, NameS, NameSys, NameTestApp2, NameNope }

(***************************************************************************)
(* The arena, app_stack_heap: byte_buf and word_buf alias the same bytes.  *)
(* The accesses of the loader are not checked against its size: byte_buf[i] *)
(* and word_buf[k] past the end are the memory that follows it, which is   *)
(* held in two fields.  behind maps the index from word_buf of a word to    *)
(* its content, for the words whose content is told one by one: what the   *)
(* memory held there before the load, or what the loader wrote.  rest is    *)
(* the content of every other word.  Neither is the program's to say       *)
(* before the load: both are inputs.  A loader step yields the arena,      *)
(* those two fields, and whether it wrote outside the arena.               *)
(***************************************************************************)
WordCount == MAX_APP_MEMORY_SIZE \div 4

\* no word outside the arena is told one by one
NoBehind == [k \in { } |-> ToU32(0)]

\* what the words outside the arena hold at boot, in the loader specification;
\* its images read no word there that the load has not written
RestWords ==
    { ToU32(0), [hi |-> (165 * 256) + 165, lo |-> (165 * 256) + 165],
      [hi |-> W16 - 1, lo |-> W16 - 1] }

\* the lifecycle specifications load one image that stays inside the arena:
\* no word outside it is read there
LifeRest == { ToU32(0) }

\* word_buf[k] for k outside the arena
BehindWord(st, k) == IF k \in DOMAIN st.behind THEN st.behind[k] ELSE st.rest

\* byte_buf[i]
ReadByte(st, i) ==
    IF i < MAX_APP_MEMORY_SIZE THEN st.buf[i]
    ELSE BytesOf(BehindWord(st, i \div 4))[(i % 4) + 1]

\* word_buf[k]
ReadWord(st, k) ==
    IF k < WordCount
    THEN [lo |-> st.buf[4 * k] + 256 * st.buf[4 * k + 1],
          hi |-> st.buf[4 * k + 2] + 256 * st.buf[4 * k + 3]]
    ELSE BehindWord(st, k)

\* word_buf[k] = w
WriteWord(st, k, w) ==
    IF k < WordCount
    THEN [st EXCEPT !.buf = [i \in ArenaIdx |->
                                IF i \div 4 = k THEN BytesOf(w)[(i % 4) + 1]
                                ELSE st.buf[i]]]
    ELSE [st EXCEPT !.behind = [j \in DOMAIN st.behind \cup { k } |->
                                   IF j = k THEN w ELSE st.behind[j]],
                    !.oob = TRUE]

\* byte_buf[i] = f[i] for every i of the domain of f
WriteBytes(st, f) ==
    LET words == { i \div 4 : i \in { j \in DOMAIN f : j >= MAX_APP_MEMORY_SIZE } }
        byte(i) == IF i \in DOMAIN f THEN f[i] ELSE ReadByte(st, i)
    IN  [buf |-> [i \in ArenaIdx |-> byte(i)],
         behind |-> [k \in DOMAIN st.behind \cup words |->
                        IF k \in words
                        THEN [lo |-> byte(4 * k) + 256 * byte(4 * k + 1),
                              hi |-> byte(4 * k + 2) + 256 * byte(4 * k + 3)]
                        ELSE st.behind[k]],
         rest |-> st.rest,
         oob |-> st.oob \/ words # { }]

\* flash_load_app(slot_id, byte_buf, size): size bytes are copied, past the
\* end of the arena when size is larger
flash_load_app(st, slot, size) ==
    WriteBytes(st, [i \in 0..(size - 1) |-> slot.data[i + 1]])

\* existing /= 4; wb = (uintptr_t)(app_stack_heap.word_buf + existing)
rebase(existing) == Add32(ARENA_BASE, Mul4(Div4(existing)))

\* one pass of the reloc loop, entry i of the table got = &word_buf[app_size / 4]:
\* got[i] is read from the memory, where the load put it and where an earlier
\* pass may have rebased it, and the word it names is rebased
reloc_entry(st, header, i) ==
    LET k == ToInt(Div4(ReadWord(st, (header.app_size \div 4) + i)))
    IN  WriteWord(st, k, rebase(ReadWord(st, k)))

RECURSIVE reloc_passes(_, _, _, _)
\* the passes i to n - 1 of the reloc loop
reloc_passes(st, header, i, n) ==
    IF i >= n THEN st
    ELSE reloc_passes(reloc_entry(st, header, i), header, i + 1, n)

\* the reloc loop from pass i on
reloc_from(st, header, i) == reloc_passes(st, header, i, header.reloc_entries_count)

\* a loop that tests its condition after the first pass
relocate_do_while(st, header) == reloc_from(reloc_entry(st, header, 0), header, 1)

\* the reloc dance: for (i = 0; i < header.reloc_entries_count; i++)
relocate(st, header) == reloc_from(st, header, 0)

\* uint32_t bss_size = header.virtual_size - header.app_size
bss_size(header) == Sub32(ToU32(header.virtual_size), ToU32(header.app_size))

\* memset(&byte_buf[header.app_size], 0, bss_size).  A length that wrapped
\* around runs over all the memory from byte app_size on: the bytes in front
\* of it keep their content, in the arena and, for an app_size larger than the
\* arena, in the words that follow it.
zero_bss(st, header) ==
    LET n == bss_size(header)
        kept == WordCount..(((header.app_size + 3) \div 4) - 1)
        byte(i) == IF i >= header.app_size THEN 0 ELSE ReadByte(st, i)
    IN  IF IsSmall(n)
        THEN WriteBytes(st, [i \in header.app_size..(header.app_size + ToInt(n) - 1) |-> 0])
        ELSE [buf |-> [i \in ArenaIdx |-> byte(i)],
              behind |-> [k \in DOMAIN st.behind \cup kept |->
                             IF k \in kept
                             THEN [lo |-> byte(4 * k) + 256 * byte(4 * k + 1),
                                   hi |-> byte(4 * k + 2) + 256 * byte(4 * k + 3)]
                             ELSE ToU32(0)],
              rest |-> ToU32(0),
              oob |-> TRUE]

\* the address written most significant byte first
set_sym_msb_first(st, header) ==
    WriteBytes(st, [i \in header.sym_table_addr..(header.sym_table_addr + 3) |->
                       BytesOf(SYM_ADDR)[4 - (i - header.sym_table_addr)]])

\* byte_buf[header.sym_table_addr + k] = ((uint32_t)(sym) >> 8k) & 0xFF
set_sym(st, header) ==
    WriteBytes(st, [i \in header.sym_table_addr..(header.sym_table_addr + 3) |->
                       BytesOf(SYM_ADDR)[(i - header.sym_table_addr) + 1]])

\* &word_buf[(MAX_APP_MEMORY_SIZE / 4) - stack_size], as a byte offset
stack_entry == 4 * ((MAX_APP_MEMORY_SIZE \div 4) - MAX_APP_STACK_SIZE)

\* ((MAX_APP_MEMORY_SIZE) - total_app_size) - (stack_size * 4)
heap_size(total_app_size) ==
    Sub32(Sub32(ToU32(MAX_APP_MEMORY_SIZE), ToU32(total_app_size)),
          ToU32(MAX_APP_STACK_SIZE * 4))

\* the partition of a flash app: heap after app + bss, stack at the top
flash_partition(header) ==
    [heap_entry |-> header.virtual_size,
     heap_size |-> heap_size(header.virtual_size),
     stack_entry |-> stack_entry,
     stack_size |-> MAX_APP_STACK_SIZE]

\* the partition of an internal app: the heap starts at the arena base
internal_partition ==
    [heap_entry |-> 0,
     heap_size |-> ToU32(MAX_APP_MEMORY_SIZE - (MAX_APP_STACK_SIZE * 4)),
     stack_entry |-> stack_entry,
     stack_size |-> MAX_APP_STACK_SIZE]

(***************************************************************************)
(* State.                                                                  *)
(***************************************************************************)
VARIABLES
    flash,              \* the flash slots
    app_manifest,       \* _app_manifest_head, as the sequence of its nodes
    app_message_queue,  \* _app_message_queue, the event queue
    app_thread_queue,   \* _app_thread_queue, the start requests
    running_app,        \* _running_app, an index of the manifest, 0 for NULL
    app_task_handle,    \* _app_task_handle, "NULL" or "app_task"
    app_stack_heap,     \* the arena, and whether a write fell outside it
    partition,          \* the heap and stack handed to the last spawned task
    sup,                \* the supervisor task: its position and its locals
    task,               \* the application task in the TCB _app_task
    caller,             \* a caller inside appmanager_app_start
    poster,             \* a task inside appmanager_app_quit or post_button_message
    halted,             \* the system stopped after undefined behaviour
    nStarts,            \* start calls made since boot
    nPosts,             \* post_button and quit calls made since boot
    nTicks,             \* post_tick calls made since boot
    delivered,          \* history: the last callback the event loop invoked
    past_apps,          \* history: the apps a transition replaced
    deleted_stale,      \* history: vTaskDelete ran on a task already deleted
    boot,               \* the position of appmanager_init
    found,              \* the last call of appmanager_get_app and what it returned
    nScans,             \* calls of _appmanager_flash_load_app_manifest made
    subscribed,         \* the button and tick registrations
    arena_before,       \* history: the memory as the last load found it
    heap_free           \* the allocations the system heap can still serve

\* the state of initialisation and of the lookups callers make
init_vars == << boot, found, nScans, heap_free >>

\* no task waits inside a post
NoPoster == [pc |-> "idle", m |-> [type |-> "NONE", cb |-> 0, fn |-> "NULL", t |-> 0]]

vars ==
    << flash, app_manifest, app_message_queue, app_thread_queue, running_app,
       app_task_handle, app_stack_heap, partition, sup, task, caller, poster,
       halted, nStarts, nPosts, nTicks, delivered, past_apps, deleted_stale, boot,
       found, nScans,
       subscribed, arena_before, heap_free >>

\* the time stamp of the latest call
Clock == nStarts + nPosts + nTicks

\* the messages of the event queue: the type, the app whose registration the
\* callback comes from, the callback, and the time stamp of the post
QuitMsg(t) == [type |-> "QUIT", cb |-> 0, fn |-> "NULL", t |-> t]
ButtonMsg(cb, t) == [type |-> "BUTTON", cb |-> cb, fn |-> "click_handler", t |-> t]
TickMsg(cb, t) == [type |-> "TICK", cb |-> cb, fn |-> "tick_handler", t |-> t]

\* a button message whose callback is the handler app_event_loop subscribes
\* on the select button
SelectMsg(cb, t) ==
    [type |-> "BUTTON", cb |-> cb, fn |-> "app_select_single_click_handler", t |-> t]

\* a send that puts the message at the front of the queue
SendToFront(q, length, m) == IF Len(q) < length THEN << m >> \o q ELSE q

\* the queue has room for a message
HasRoom(q, length) == Len(q) < length

\* xQueueSendToBack at the instant the queue is looked at: the message goes
\* to the back when there is room
SendToBack(q, length, m) == IF HasRoom(q, length) THEN Append(q, m) ELSE q

\* xQueueSendToBackFromISR: no wait, the message is lost when the queue is full
SendToBackFromISR(q, length, m) == IF HasRoom(q, length) THEN Append(q, m) ELSE q

\* xQueueReset
QueueReset(q) == << >>

\* the names callers pass to appmanager_app_start
StartNames == { NameSystem, NameSimple, NameTestApp, NameNope }

\* the apps whose callbacks a button or tick message may carry
Callbacks == { get_app(app_manifest, n) : n \in { NameSystem, NameTestApp } } \ { 0 }

\* the app whose loop subscribed the select handler a button message may carry
SelectCallbacks == { get_app(app_manifest, NameSimple) } \ { 0 }

\* the apps whose tick callbacks a tick message may carry
TickCallbacks == { get_app(app_manifest, NameSystem) }

\* the application task (tskIDLE_PRIORITY + 6) is ready to run: the
\* supervisor (tskIDLE_PRIORITY + 5) runs only when it is not, that is while
\* the task waits for a message in its loop or for room in a queue it sends to
AppReady ==
    /\ task.alive
    /\ \/ task.pc = "main"
       \/ task.pc = "loop" /\ app_message_queue # << >>
       \/ task.pc = "start" /\ HasRoom(app_message_queue, MESSAGE_QUEUE_LENGTH)
       \/ task.pc = "send" /\ HasRoom(app_thread_queue, THREAD_QUEUE_LENGTH)

NoTask ==
    [alive |-> FALSE, pc |-> "none", rec |-> 0, t |-> 0, entry |-> "NULL",
     seen |-> 0, residue |-> FALSE, call |-> 0]

NoDelivery ==
    [kind |-> "NONE", cb |-> 0, t |-> 0, by |-> 0, inst_t |-> 0,
     before |-> 0, last_button |-> 0, stale_cb |-> FALSE, read |-> 0]

NoLookup == [name |-> << >>, node |-> 0]

NoSubscription == [buttons |-> FALSE, select |-> FALSE, tick |-> FALSE]

ZeroArena == [i \in ArenaIdx |-> 0]

\* the arena as the boot leaves it, r in the words that follow it
BootArena(r) == [buf |-> ZeroArena, behind |-> NoBehind, rest |-> r, oob |-> FALSE]

NoPartition ==
    [heap_entry |-> 0, heap_size |-> ToU32(0), stack_entry |-> 0, stack_size |-> 0]

\* the state appmanager_init leaves, the supervisor task just created
InitWith(images, rests) ==
    /\ \E slot \in FlashSlots, img \in images : flash = FlashWith(slot, img)
    /\ app_manifest = init_manifest(flash)
    /\ app_task_handle = "NULL"
    /\ app_message_queue = SendToBack(<< >>, MESSAGE_QUEUE_LENGTH, QuitMsg(0))
    /\ app_thread_queue = << [name |-> NameSystem, t |-> 0, live |-> FALSE] >>
    /\ running_app = 0
    /\ \E r \in rests : app_stack_heap = BootArena(r)
    /\ partition = NoPartition
    /\ sup = [pc |-> "wait", name |-> << >>, t |-> 0, live |-> FALSE,
              residue |-> FALSE, app |-> 0]
    /\ task = NoTask
    /\ caller = [pc |-> "idle", name |-> << >>, t |-> 0, live |-> FALSE]
    /\ poster = NoPoster
    /\ halted = FALSE
    /\ nStarts = 0
    /\ nPosts = 0
    /\ nTicks = 0
    /\ delivered = NoDelivery
    /\ past_apps = { }
    /\ deleted_stale = FALSE
    /\ boot = "done"
    /\ found = NoLookup
    /\ nScans = 1
    /\ subscribed = NoSubscription
    /\ arena_before = app_stack_heap
    /\ heap_free = AmpleHeap - (2 * Len(app_manifest))

Init == InitWith(LifeImages, LifeRest)

\* the heaps the initialisation may find: exhausted, short of the App or of
\* the name of a baked in app, short for the flash apps, large enough
HeapSizes == { 0, 1, 5, 6, 9, AmpleHeap }

\* the state before appmanager_init: the statics are zero
InitBoot ==
    /\ flash \in ScanFlashes
    /\ app_manifest = << >>
    /\ app_task_handle = "NULL"
    /\ app_message_queue = << >>
    /\ app_thread_queue = << >>
    /\ running_app = 0
    /\ \E r \in LifeRest : app_stack_heap = BootArena(r)
    /\ partition = NoPartition
    /\ sup = [pc |-> "wait", name |-> << >>, t |-> 0, live |-> FALSE,
              residue |-> FALSE, app |-> 0]
    /\ task = NoTask
    /\ caller = [pc |-> "idle", name |-> << >>, t |-> 0, live |-> FALSE]
    /\ poster = NoPoster
    /\ halted = FALSE
    /\ nStarts = 0
    /\ nPosts = 0
    /\ nTicks = 0
    /\ delivered = NoDelivery
    /\ past_apps = { }
    /\ deleted_stale = FALSE
    /\ boot = "reset"
    /\ found = NoLookup
    /\ nScans = 0
    /\ subscribed = NoSubscription
    /\ arena_before = app_stack_heap
    /\ heap_free \in HeapSizes

(***************************************************************************)
(* appmanager_init, step by step, and the lookups of the manifest.         *)
(***************************************************************************)
\* appmanager_init: the baked in apps are added, _app_task_handle = NULL
InitBuiltins ==
    /\ boot = "reset"
    /\ LET st == load_builtins([manifest |-> app_manifest, heap |-> heap_free])
       IN  /\ app_manifest' = st.manifest
           /\ heap_free' = st.heap
    /\ app_task_handle' = "NULL"
    /\ boot' = "builtins"
    /\ UNCHANGED << found, nScans, subscribed, arena_before, flash,
                    app_message_queue, app_thread_queue, running_app,
                    app_stack_heap, partition, sup, task, caller, poster, halted, nStarts, nTicks,
                    nPosts, delivered, past_apps, deleted_stale >>

\* _appmanager_flash_load_app_manifest(), appmanager_init going on at pc
Scan(pc) ==
    /\ LET st == flash_load_app_manifest(flash,
                     [manifest |-> app_manifest, heap |-> heap_free])
       IN  /\ app_manifest' = st.manifest
           /\ heap_free' = st.heap
    /\ nScans' = nScans + 1
    /\ boot' = pc
    /\ UNCHANGED << found, subscribed, arena_before, flash, app_message_queue,
                    app_thread_queue, running_app, app_task_handle, app_stack_heap,
                    partition, sup, task, caller, poster, halted, nStarts, nTicks, nPosts,
                    delivered, past_apps, deleted_stale >>

\* appmanager_init: now load the ones on flash
InitScan == boot = "builtins" /\ Scan("scanned")

\* the flash scan on its own, on the manifest as it is
Discover == Scan(boot)

\* appmanager_init: the queues are created, appmanager_app_start("System")
\* is called and the supervisor task is created
InitStart ==
    /\ boot = "scanned"
    /\ app_message_queue' = SendToBack(<< >>, MESSAGE_QUEUE_LENGTH, QuitMsg(0))
    /\ app_thread_queue' = << [name |-> NameSystem, t |-> 0, live |-> FALSE] >>
    /\ boot' = "done"
    /\ UNCHANGED << heap_free, found, nScans, subscribed, arena_before, flash, app_manifest,
                    running_app, app_task_handle, app_stack_heap, partition, sup,
                    task, caller, poster, halted, nStarts, nTicks, nPosts, delivered, past_apps,
                    deleted_stale >>

\* a call of appmanager_get_app(app_name)
GetApp(app_name) ==
    /\ found' = [name |-> app_name, node |-> get_app(app_manifest, app_name)]
    /\ UNCHANGED << heap_free, boot, nScans, subscribed, arena_before, flash, app_manifest,
                    app_message_queue, app_thread_queue, running_app,
                    app_task_handle, app_stack_heap, partition, sup, task, caller, poster,
                    halted, nStarts, nTicks, nPosts, delivered, past_apps, deleted_stale >>

InitLoad == InitWith(LoadImages, RestWords)

(***************************************************************************)
(* Callers: appmanager_app_start, appmanager_app_quit and the posters.     *)
(***************************************************************************)
\* appmanager_app_start calls appmanager_app_quit: the Quit goes to the back
\* of the event queue, or the caller waits in xQueueSendToBack on a full queue
StartCall(name) ==
    /\ ~halted
    /\ caller.pc = "idle"
    /\ nStarts' = nStarts + 1
    /\ app_message_queue' =
           SendToBack(app_message_queue, MESSAGE_QUEUE_LENGTH, QuitMsg(Clock + 1))
    /\ caller' = [pc |-> IF HasRoom(app_message_queue, MESSAGE_QUEUE_LENGTH)
                         THEN "send" ELSE "quit",
                  name |-> name, t |-> Clock + 1, live |-> task.alive]
    /\ UNCHANGED << init_vars, poster, subscribed, arena_before, flash, app_manifest, app_thread_queue, running_app,
                    app_task_handle, app_stack_heap, partition, sup, task, halted,
                    nPosts, nTicks, delivered, past_apps, deleted_stale >>

\* appmanager_app_quit inside appmanager_app_start: the queue got room within
\* the 10 ticks, the Quit is sent
StartQuitSend ==
    /\ ~halted
    /\ caller.pc = "quit"
    /\ HasRoom(app_message_queue, MESSAGE_QUEUE_LENGTH)
    /\ app_message_queue' =
           SendToBack(app_message_queue, MESSAGE_QUEUE_LENGTH, QuitMsg(caller.t))
    /\ caller' = [caller EXCEPT !.pc = "send"]
    /\ UNCHANGED << init_vars, poster, subscribed, arena_before, flash, app_manifest, app_thread_queue, running_app,
                    app_task_handle, app_stack_heap, partition, sup, task, halted,
                    nStarts, nTicks, nPosts, delivered, past_apps, deleted_stale >>

\* appmanager_app_quit inside appmanager_app_start: the queue stayed full for
\* 10 ticks, the Quit is lost and appmanager_app_start goes on
StartQuitTimeout ==
    /\ ~halted
    /\ caller.pc = "quit"
    /\ ~HasRoom(app_message_queue, MESSAGE_QUEUE_LENGTH)
    /\ caller' = [caller EXCEPT !.pc = "send"]
    /\ UNCHANGED << init_vars, poster, subscribed, arena_before, flash, app_manifest, app_message_queue, app_thread_queue, running_app,
                    app_task_handle, app_stack_heap, partition, sup, task, halted,
                    nStarts, nTicks, nPosts, delivered, past_apps, deleted_stale >>

\* appmanager_app_start: xQueueSendToBack(_app_thread_queue, &am, 100) finds room
StartSend ==
    /\ ~halted
    /\ caller.pc = "send"
    /\ Len(app_thread_queue) < THREAD_QUEUE_LENGTH
    /\ app_thread_queue' =
           Append(app_thread_queue,
               [name |-> caller.name, t |-> caller.t, live |-> caller.live])
    /\ caller' = [pc |-> "idle", name |-> << >>, t |-> 0, live |-> FALSE]
    /\ UNCHANGED << init_vars, poster, subscribed, arena_before, flash, app_manifest, app_message_queue, running_app,
                    app_task_handle, app_stack_heap, partition, sup, task, halted,
                    nStarts, nTicks, nPosts, delivered, past_apps, deleted_stale >>

\* appmanager_app_start: the thread queue stayed full for 100 ticks
StartTimeout ==
    /\ ~halted
    /\ caller.pc = "send"
    /\ Len(app_thread_queue) >= THREAD_QUEUE_LENGTH
    /\ caller' = [pc |-> "idle", name |-> << >>, t |-> 0, live |-> FALSE]
    /\ UNCHANGED << init_vars, poster, subscribed, arena_before, flash, app_manifest, app_message_queue, app_thread_queue,
                    running_app, app_task_handle, app_stack_heap, partition, sup,
                    task, halted, nStarts, nTicks, nPosts, delivered, past_apps,
                    deleted_stale >>

\* a task posts: xQueueSendToBack(_app_message_queue, &am, 10) puts the
\* message at the back of the event queue, or the task waits on a full queue
Post(m) ==
    /\ ~halted
    /\ poster.pc = "idle"
    /\ nPosts' = nPosts + 1
    /\ app_message_queue' = SendToBack(app_message_queue, MESSAGE_QUEUE_LENGTH, m)
    /\ poster' = IF HasRoom(app_message_queue, MESSAGE_QUEUE_LENGTH)
                 THEN NoPoster ELSE [pc |-> "blocked", m |-> m]
    /\ UNCHANGED << init_vars, subscribed, arena_before, flash, app_manifest, app_thread_queue, running_app,
                    app_task_handle, app_stack_heap, partition, sup, task, caller,
                    halted, nStarts, nTicks, delivered, past_apps, deleted_stale >>

\* the queue got room within the 10 ticks: the waiting task sends its message
PostSend ==
    /\ ~halted
    /\ poster.pc = "blocked"
    /\ HasRoom(app_message_queue, MESSAGE_QUEUE_LENGTH)
    /\ app_message_queue' =
           SendToBack(app_message_queue, MESSAGE_QUEUE_LENGTH, poster.m)
    /\ poster' = NoPoster
    /\ UNCHANGED << init_vars, subscribed, arena_before, flash, app_manifest, app_thread_queue, running_app,
                    app_task_handle, app_stack_heap, partition, sup, task, caller,
                    halted, nStarts, nTicks, nPosts, delivered, past_apps, deleted_stale >>

\* the queue stayed full for 10 ticks: xQueueSendToBack gives up, the message
\* is lost
PostTimeout ==
    /\ ~halted
    /\ poster.pc = "blocked"
    /\ ~HasRoom(app_message_queue, MESSAGE_QUEUE_LENGTH)
    /\ poster' = NoPoster
    /\ UNCHANGED << init_vars, subscribed, arena_before, flash, app_manifest, app_message_queue, app_thread_queue, running_app,
                    app_task_handle, app_stack_heap, partition, sup, task, caller,
                    halted, nStarts, nTicks, nPosts, delivered, past_apps, deleted_stale >>

\* appmanager_app_quit
QuitCall == Post(QuitMsg(Clock + 1))

\* appmanager_post_button_message
PostButton(cb) == Post(ButtonMsg(cb, Clock + 1))

\* appmanager_post_button_message for a click of the select button
PostSelect(cb) == Post(SelectMsg(cb, Clock + 1))

\* appmanager_post_tick_message, from the tick interrupt: it never waits
PostTick(cb) ==
    /\ ~halted
    /\ nTicks' = nTicks + 1
    /\ app_message_queue' =
           SendToBackFromISR(app_message_queue, MESSAGE_QUEUE_LENGTH,
                             TickMsg(cb, Clock + 1))
    /\ UNCHANGED << init_vars, poster, subscribed, arena_before, flash, app_manifest, app_thread_queue, running_app,
                    app_task_handle, app_stack_heap, partition, sup, task, caller,
                    halted, nStarts, nPosts, delivered, past_apps, deleted_stale >>

(***************************************************************************)
(* The supervisor task, _appmanager_app_thread.  It runs at a lower        *)
(* priority than the application task, so it takes a step only while the   *)
(* application task is blocked or gone.                                    *)
(***************************************************************************)
SupRuns(pc) == ~halted /\ sup.pc = pc /\ ~AppReady

\* the header of the app the supervisor is loading
SupHeader == flash[app_manifest[sup.app].slot_id]

\* a deletion that returns without ending the task
vTaskDelete_returns(tsk) == tsk

\* vTaskDelete of the task in _app_task
vTaskDelete(tsk) == [tsk EXCEPT !.alive = FALSE]

\* a supervisor that leaves the previous task alone
delete_nothing(handle, tsk) == tsk

\* if (_app_task_handle != NULL) vTaskDelete(_app_task_handle)
delete_previous(handle, tsk) == IF handle # "NULL" THEN vTaskDelete(tsk) ELSE tsk

\* a supervisor that sets the pointer only while it is NULL
set_running_app_once(app, old) == IF old = 0 THEN app ELSE old

\* _running_app = app
set_running_app(app, old) == app

\* xTaskCreateStatic(entry, "dynapp", ..., &_app_task) for the record rec,
\* on behalf of the start request req
xTaskCreateStatic(entry, rec, req) ==
    [alive |-> TRUE, pc |-> "main", rec |-> rec, t |-> req.t, entry |-> entry,
     seen |-> 0, residue |-> req.residue, call |-> 0]

\* xQueueReceive(_app_thread_queue, &am, portMAX_DELAY)
SupReceive ==
    /\ SupRuns("wait")
    /\ app_thread_queue # << >>
    /\ sup' = [pc |-> "reset", name |-> Head(app_thread_queue).name,
               t |-> Head(app_thread_queue).t, live |-> Head(app_thread_queue).live,
               residue |-> FALSE, app |-> 0]
    /\ app_thread_queue' = Tail(app_thread_queue)
    /\ UNCHANGED << init_vars, subscribed, arena_before, flash, app_manifest, app_message_queue, running_app,
                    app_task_handle, app_stack_heap, partition, task, caller, poster,
                    halted, nStarts, nTicks, nPosts, delivered, past_apps, deleted_stale >>

\* xQueueReset(_app_message_queue)
SupReset ==
    /\ SupRuns("reset")
    /\ app_message_queue' = QueueReset(app_message_queue)
    /\ sup' = [sup EXCEPT !.pc = "lookup",
                          !.residue = \E i \in 1..Len(app_message_queue) :
                                          app_message_queue[i].type # "QUIT"]
    /\ UNCHANGED << init_vars, subscribed, arena_before, flash, app_manifest, app_thread_queue, running_app,
                    app_task_handle, app_stack_heap, partition, task, caller, poster,
                    halted, nStarts, nTicks, nPosts, delivered, past_apps, deleted_stale >>

\* appmanager_get_app found the app: _running_app = app
SupLookupFound ==
    /\ SupRuns("lookup")
    /\ app_manifest # << >>
    /\ get_app(app_manifest, sup.name) # 0
    /\ LET app == get_app(app_manifest, sup.name)
       IN  /\ running_app' = set_running_app(app, running_app)
           /\ past_apps' = past_apps \cup ({ running_app } \ { 0, app })
           /\ sup' = [sup EXCEPT !.pc = "delete", !.app = app]
    /\ UNCHANGED << init_vars, subscribed, arena_before, flash, app_manifest, app_message_queue, app_thread_queue,
                    app_task_handle, app_stack_heap, partition, task, caller, poster,
                    halted, nStarts, nTicks, nPosts, delivered, deleted_stale >>

\* no manifest, or appmanager_get_app returned NULL: the task function returns.
\* A task function that returns is undefined in the kernel: the task is gone,
\* and the system may stop with it.
SupLookupReturn ==
    /\ SupRuns("lookup")
    /\ app_manifest = << >> \/ get_app(app_manifest, sup.name) = 0
    /\ sup' = [sup EXCEPT !.pc = "returned"]
    /\ halted' \in BOOLEAN
    /\ UNCHANGED << init_vars, subscribed, arena_before, flash, app_manifest, app_message_queue, app_thread_queue,
                    running_app, app_task_handle, app_stack_heap, partition, task,
                    caller, poster, nStarts, nTicks, nPosts, delivered, past_apps, deleted_stale >>

\* if (_app_task_handle != NULL) vTaskDelete(_app_task_handle).  The handle
\* may be that of a task that already deleted itself (line 313): the call is
\* made all the same, on a dangling task reference.  What the kernel does with
\* it is undefined: the call returns and the supervisor goes on to the load or
\* the spawn, or the system stops there.
SupDelete ==
    /\ SupRuns("delete")
    /\ task' = delete_previous(app_task_handle, task)
    /\ LET stale == app_task_handle # "NULL" /\ ~task.alive
       IN  /\ deleted_stale' = (deleted_stale \/ stale)
           /\ halted' \in (IF stale THEN BOOLEAN ELSE { FALSE })
    /\ sup' = [sup EXCEPT !.pc =
                  IF app_manifest[sup.app].is_internal THEN "internal" ELSE "load"]
    /\ UNCHANGED << init_vars, subscribed, arena_before, flash, app_manifest, app_message_queue, app_thread_queue,
                    running_app, app_task_handle, app_stack_heap, partition, caller, poster,
                    nStarts, nTicks, nPosts, delivered, past_apps >>

\* the arena as a loader step finds it
ArenaNow == [app_stack_heap EXCEPT !.oob = FALSE]

\* a step of the loader leaves the arena r.  A step that touched memory outside
\* the arena is undefined: the system may stop.
LoaderStep(r, pc) ==
    /\ app_stack_heap' = [r EXCEPT !.oob = app_stack_heap.oob \/ r.oob]
    /\ halted' \in (IF r.oob THEN BOOLEAN ELSE { FALSE })
    /\ sup' = [sup EXCEPT !.pc = pc]
    /\ UNCHANGED << init_vars, subscribed, flash, app_manifest, app_message_queue, app_thread_queue,
                    running_app, app_task_handle, partition, task, caller, poster,
                    nStarts, nTicks, nPosts, delivered, past_apps, deleted_stale >>

\* flash_load_app_header, flash_load_app of app_size + reloc_entries_count * 4
SupLoad ==
    /\ SupRuns("load")
    /\ arena_before' = ArenaNow
    /\ LoaderStep(flash_load_app(ArenaNow, SupHeader,
               SupHeader.app_size + (SupHeader.reloc_entries_count * 4)), "reloc")

\* the reloc loop over the GOT
SupReloc ==
    /\ SupRuns("reloc")
    /\ UNCHANGED arena_before
    /\ LoaderStep(relocate(ArenaNow, SupHeader), "bss")

\* init bss to 0
SupBss ==
    /\ SupRuns("bss")
    /\ UNCHANGED arena_before
    /\ LoaderStep(zero_bss(ArenaNow, SupHeader), "sym")

\* load the address of the lookup table into the app
SupSym ==
    /\ SupRuns("sym")
    /\ UNCHANGED arena_before
    /\ LoaderStep(set_sym(ArenaNow, SupHeader), "spawn")

\* appHeapInit(heap_size, heap_entry); xTaskCreateStatic(&byte_buf[header.offset])
\* creates the task, which runs before the call returns
SupSpawnFlash ==
    /\ SupRuns("spawn")
    /\ partition' = flash_partition(SupHeader)
    /\ task' = xTaskCreateStatic(SupHeader.offset, sup.app, sup)
    /\ sup' = [sup EXCEPT !.pc = "store"]
    /\ UNCHANGED << init_vars, subscribed, arena_before, flash, app_manifest, app_message_queue, app_thread_queue,
                    running_app, app_task_handle, app_stack_heap, caller, poster, halted, nStarts, nTicks, nPosts,
                    delivered, past_apps, deleted_stale >>

\* an internal app: appHeapInit over the arena, xTaskCreateStatic(_running_app->main)
\* creates the task, which runs before the call returns
SupSpawnInternal ==
    /\ SupRuns("internal")
    /\ partition' = internal_partition
    /\ task' = xTaskCreateStatic(app_manifest[running_app].main, running_app, sup)
    /\ sup' = [sup EXCEPT !.pc = "store"]
    /\ UNCHANGED << init_vars, subscribed, arena_before, flash, app_manifest, app_message_queue, app_thread_queue,
                    running_app, app_task_handle, app_stack_heap, caller, poster, halted, nStarts, nTicks, nPosts,
                    delivered, past_apps, deleted_stale >>

\* _app_task_handle = <the handle xTaskCreateStatic returned>: the new task,
\* of the higher priority, ran from its creation until it blocked or ended,
\* and only then does the supervisor come back from xTaskCreateStatic
SupStoreHandle ==
    /\ SupRuns("store")
    /\ app_task_handle' = "app_task"
    /\ sup' = [sup EXCEPT !.pc = "wait"]
    /\ UNCHANGED << init_vars, subscribed, arena_before, flash, app_manifest, app_message_queue, app_thread_queue,
                    running_app, app_stack_heap, partition, task, caller, poster, halted, nStarts, nTicks, nPosts,
                    delivered, past_apps, deleted_stale >>

(***************************************************************************)
(* The application task, inside app_event_loop.                            *)
(***************************************************************************)
\* the main of the app, up to its call of app_event_loop: it may subscribe
\* to the tick service
app_main(sub, ticks) == [sub EXCEPT !.tick = sub.tick \/ ticks]

\* the entry of app_event_loop: the click config of the window is loaded, and
\* the select handler is subscribed unless the running app is a system app
load_click_config(sub, app) ==
    [sub EXCEPT !.buttons = TRUE,
                !.select = sub.select \/ app.type # APP_TYPE_SYSTEM]

\* button_unsubscribe_all(): no button registration is left
button_unsubscribe_all(sub) == [sub EXCEPT !.buttons = FALSE, !.select = FALSE]

\* rebble_time_service_unsubscribe(): the tick handler is removed
rebble_time_service_unsubscribe(sub) == [sub EXCEPT !.tick = FALSE]

\* the main of the app, then the entry of app_event_loop: the task reads
\* _running_app->type
AppEnterLoop ==
    /\ ~halted
    /\ task.alive
    /\ task.pc = "main"
    /\ task' = [task EXCEPT !.pc = "loop", !.seen = running_app]
    /\ \E ticks \in BOOLEAN :
           subscribed' = load_click_config(app_main(subscribed, ticks),
                                           app_manifest[running_app])
    /\ UNCHANGED << init_vars, arena_before, flash, app_manifest, app_message_queue, app_thread_queue,
                    running_app, app_task_handle, app_stack_heap, partition, sup,
                    caller, poster, halted, nStarts, nTicks, nPosts, delivered, past_apps,
                    deleted_stale >>

\* the callback of a button or tick message is invoked: the click handlers
\* and the resource proxies it goes through read _running_app, app here
invoke(m, tsk, last, past, app) ==
    [kind |-> m.type, cb |-> m.cb, t |-> m.t, by |-> tsk.rec, inst_t |-> tsk.t,
     before |-> last.last_button,
     last_button |-> IF m.type = "BUTTON" THEN m.t ELSE last.last_button,
     stale_cb |-> (m.cb \in past /\ m.cb # tsk.rec),
     read |-> app]

\* app_select_single_click_handler reads _running_app->type, app here, and
\* calls appmanager_app_start("System") for a watch face
StartsSystem(m, app) ==
    /\ m.fn = "app_select_single_click_handler"
    /\ app_manifest[app].type = APP_TYPE_FACE

\* one pass of the loop, up to the first kernel call of the callback:
\* xQueueReceive(_app_message_queue, &data, ...) got a message.  On Quit the
\* task ends; the select handler of a watch face enters appmanager_app_start;
\* any other callback returns and the task is back at xQueueReceive.
AppReceive ==
    /\ ~halted
    /\ task.alive
    /\ task.pc = "loop"
    /\ app_message_queue # << >>
    /\ app_message_queue' = Tail(app_message_queue)
    /\ LET m == Head(app_message_queue)
       IN  IF m.type = "QUIT"
           THEN /\ subscribed' =
                       rebble_time_service_unsubscribe(button_unsubscribe_all(subscribed))
                /\ task' = vTaskDelete(task)
                /\ delivered' = [delivered EXCEPT !.kind = "QUIT", !.t = m.t,
                                    !.by = task.rec, !.inst_t = task.t]
                /\ nStarts' = nStarts
           ELSE /\ subscribed' = subscribed
                /\ delivered' = invoke(m, task, delivered, past_apps, running_app)
                /\ IF StartsSystem(m, running_app)
                   THEN /\ task' = [task EXCEPT !.pc = "start", !.call = Clock + 1]
                        /\ nStarts' = nStarts + 1
                   ELSE /\ task' = task
                        /\ nStarts' = nStarts
    /\ UNCHANGED << init_vars, arena_before, flash, app_manifest, app_thread_queue, running_app,
                    app_task_handle, app_stack_heap, partition, sup, caller, poster, halted,
                    nTicks, nPosts, past_apps, deleted_stale >>

\* the task inside the handler's appmanager_app_start: appmanager_app_quit
\* returns.  Its xQueueSendToBack(_app_message_queue, &am, 10) put the Quit
\* into the task's own event queue, or the queue stayed full for the 10 ticks
\* and the Quit is lost.  While it waits the task is not ready (AppReady).
AppStartQuit ==
    /\ ~halted
    /\ task.alive
    /\ task.pc = "start"
    /\ app_message_queue' =
           IF HasRoom(app_message_queue, MESSAGE_QUEUE_LENGTH)
           THEN SendToBack(app_message_queue, MESSAGE_QUEUE_LENGTH, QuitMsg(task.call))
           ELSE app_message_queue
    /\ task' = [task EXCEPT !.pc = "send"]
    /\ UNCHANGED << init_vars, subscribed, arena_before, flash, app_manifest, app_thread_queue,
                    running_app, app_task_handle, app_stack_heap, partition, sup, caller,
                    poster, halted, nStarts, nTicks, nPosts, delivered, past_apps,
                    deleted_stale >>

\* the task inside the handler's appmanager_app_start:
\* xQueueSendToBack(_app_thread_queue, &am, 100) finds room, at once or within
\* the 100 ticks; the handler returns and the task is back at xQueueReceive
AppStartSend ==
    /\ ~halted
    /\ task.alive
    /\ task.pc = "send"
    /\ HasRoom(app_thread_queue, THREAD_QUEUE_LENGTH)
    /\ app_thread_queue' =
           Append(app_thread_queue, [name |-> NameSystem, t |-> task.call, live |-> TRUE])
    /\ task' = [task EXCEPT !.pc = "loop"]
    /\ UNCHANGED << init_vars, subscribed, arena_before, flash, app_manifest, app_message_queue,
                    running_app, app_task_handle, app_stack_heap, partition, sup, caller,
                    poster, halted, nStarts, nTicks, nPosts, delivered, past_apps,
                    deleted_stale >>

\* the thread queue stayed full for 100 ticks: the start is lost, the handler
\* returns
AppStartTimeout ==
    /\ ~halted
    /\ task.alive
    /\ task.pc = "send"
    /\ ~HasRoom(app_thread_queue, THREAD_QUEUE_LENGTH)
    /\ task' = [task EXCEPT !.pc = "loop"]
    /\ UNCHANGED << init_vars, subscribed, arena_before, flash, app_manifest, app_message_queue,
                    app_thread_queue, running_app, app_task_handle, app_stack_heap,
                    partition, sup, caller, poster, halted, nStarts, nTicks, nPosts,
                    delivered, past_apps, deleted_stale >>

(***************************************************************************)
(* Specifications.                                                         *)
(***************************************************************************)
Supervisor ==
    \/ SupReceive \/ SupReset \/ SupLookupFound \/ SupLookupReturn \/ SupDelete
    \/ SupLoad \/ SupReloc \/ SupBss \/ SupSym \/ SupSpawnFlash \/ SupSpawnInternal
    \/ SupStoreHandle

\* the calls other tasks and interrupts make, at most posts and ticks of
\* them, and no start once starts of them were made, those of the select
\* handler included
Calls(starts, posts, ticks) ==
    \/ (nStarts < starts /\ \E name \in StartNames : StartCall(name))
    \/ StartSend
    \/ StartTimeout
    \/ (nPosts < posts /\ QuitCall)
    \/ (nPosts < posts /\ \E cb \in Callbacks : PostButton(cb))
    \/ (nPosts < posts /\ \E cb \in SelectCallbacks : PostSelect(cb))
    \/ (nTicks < ticks /\ \E cb \in TickCallbacks : PostTick(cb))

Next ==
    \/ Calls(MaxStarts, MaxPosts, MaxTicks)
    \/ StartQuitSend \/ StartQuitTimeout \/ PostSend \/ PostTimeout
    \/ SupReceive \/ SupReset \/ SupLookupFound \/ SupLookupReturn \/ SupDelete
    \/ SupLoad \/ SupReloc \/ SupBss \/ SupSym \/ SupSpawnFlash \/ SupSpawnInternal
    \/ SupStoreHandle
    \/ AppEnterLoop
    \/ AppReceive
    \/ AppStartQuit \/ AppStartSend \/ AppStartTimeout

Spec == Init /\ [][Next]_vars

\* the tasks are scheduled, a caller that can send does, and the application
\* task does not wait for room in the thread queue beyond its 100 ticks
Fairness ==
    /\ WF_vars(Supervisor)
    /\ WF_vars(AppEnterLoop)
    /\ WF_vars(AppReceive)
    /\ WF_vars(AppStartQuit)
    /\ WF_vars(AppStartSend)
    /\ WF_vars(AppStartTimeout)
    /\ WF_vars(StartSend)

\* the calls and the steps of the supervisor and of the app task; a fifth
\* message never meets a full event queue within these call counts, so no
\* sender waits
NextFair ==
    \/ Calls(MaxFairStarts, MaxFairPosts, MaxFairTicks)
    \/ SupReceive \/ SupReset \/ SupLookupFound \/ SupLookupReturn \/ SupDelete
    \/ SupLoad \/ SupReloc \/ SupBss \/ SupSym \/ SupSpawnFlash \/ SupSpawnInternal
    \/ SupStoreHandle
    \/ AppEnterLoop
    \/ AppReceive
    \/ AppStartQuit \/ AppStartSend \/ AppStartTimeout

FairSpec == Init /\ [][NextFair]_vars /\ Fairness

\* the loader on every image: boot, then one start of the flash app; the one
\* Quit of that start finds room in the event queue, and no button is posted,
\* so that no handler runs
NextLoad ==
    \/ (nStarts < MaxLoadStarts /\ StartCall(NameTestApp))
    \/ StartSend
    \/ StartTimeout
    \/ SupReceive \/ SupReset \/ SupLookupFound \/ SupDelete
    \/ SupLoad \/ SupReloc \/ SupBss \/ SupSym \/ SupSpawnFlash \/ SupSpawnInternal
    \/ SupStoreHandle
    \/ AppEnterLoop
    \/ AppReceive

LoadSpec == InitLoad /\ [][NextLoad]_vars

\* the boot: appmanager_init on every flash, and lookups at every point of it
NextBoot ==
    \/ InitBuiltins
    \/ InitScan
    \/ InitStart
    \/ \E q \in QueryNames : GetApp(q)

BootSpec == InitBoot /\ [][NextBoot]_vars

\* the manifest functions on their own: scans from the empty manifest, lookups
NextManifest ==
    \/ (nScans < MaxScans /\ Discover)
    \/ \E q \in QueryNames : GetApp(q)

ManifestSpec == InitBoot /\ [][NextManifest]_vars

(***************************************************************************)
(* Properties.                                                             *)
(***************************************************************************)
\* the positions of the supervisor inside its for (;;) loop
SupLoop ==
    { "wait", "reset", "lookup", "delete", "load", "reloc", "bss", "sym", "spawn",
      "internal", "store" }

\* C1: a Start whose name is not in the manifest is dropped and the supervisor
\* goes back to waiting on the thread queue: it never leaves its loop, so that
\* a later Start can be served.
C1_NotFoundBackToIdle == sup.pc \in SupLoop

\* a Start with stamp t, sent while an app task was alive, for a name in the
\* manifest, sits in the thread queue
StartAccepted(t) ==
    \E i \in 1..Len(app_thread_queue) :
        /\ app_thread_queue[i].t = t
        /\ app_thread_queue[i].live
        /\ get_app(app_manifest, app_thread_queue[i].name) # 0

\* the task of the Start with stamp t has been created, the running-app
\* pointer is its record
StartServed(t) ==
    /\ task.alive
    /\ task.t = t
    /\ running_app = task.rec

\* C2: a start(B) made while an app runs, with B in the manifest and the Start
\* accepted by the thread queue, leads to B's task being created with the
\* running-app pointer on B's record, in every behaviour in which no undefined
\* step stops the system.
C2_StartReplacesRunningApp ==
    \A t \in 1..(MaxFairStarts + (2 * MaxFairPosts) + MaxFairTicks) :
        StartAccepted(t) ~> (StartServed(t) \/ halted)

\* C3: every event an app takes from the event queue was posted at or after
\* the start call that spawned the app.
C3_ResetSemantics == delivered.kind # "NONE" => delivered.t >= delivered.inst_t

\* C4: button messages are delivered in the order they were posted: a button
\* callback is never invoked after the callback of a button posted later.
C4_EventOrdering == delivered.kind = "BUTTON" => delivered.t > delivered.before

\* two button messages were delivered to the same app, one after the other
C4_Witness ==
    /\ delivered.kind = "BUTTON"
    /\ delivered.before > delivered.inst_t
    /\ delivered.t > delivered.before

\* the supervisor is between its vTaskDelete and the end of the iteration
SupBuilding == sup.pc \in { "load", "reloc", "bss", "sym", "spawn", "internal" }

\* C5: the supervisor never loads into the arena and never creates a task
\* while a task it spawned before is still alive.
C5_AtMostOneApp == SupBuilding => ~task.alive

\* the supervisor is about to create a task after killing one that was alive
C5_Witness ==
    /\ sup.pc \in { "spawn", "internal" }
    /\ app_task_handle = "app_task"
    /\ ~deleted_stale
    /\ ~task.alive

\* C6: from the assignment on, the running-app pointer is the record being
\* started, and a spawned task sees its own record when it enters the loop.
C6_PointerBeforeSpawn ==
    /\ (sup.pc = "delete" \/ SupBuilding) => running_app = sup.app
    /\ (task.alive /\ task.pc = "loop") => task.seen = task.rec

\* a task spawned by a transition from another app entered its loop
C6_Witness ==
    /\ task.alive
    /\ task.pc = "loop"
    /\ task.seen = task.rec
    /\ past_apps # { }

\* C7: after a transition from A to B no pass of the event loop invokes a
\* callback that belongs to A.
C7_NoStaleCallback == ~delivered.stale_cb

\* the header of the flash app the task was spawned from
TaskHeader == flash[app_manifest[task.rec].slot_id]

\* C8: a spawned flash app fits the arena: virtual_size plus the stack is at
\* most the arena, and the heap is not empty.
C8_SpawnedAppFits ==
    (task.alive /\ ~app_manifest[task.rec].is_internal) =>
        /\ TaskHeader.virtual_size + (MAX_APP_STACK_SIZE * 4) <= MAX_APP_MEMORY_SIZE
        /\ Lt32(ToU32(0), partition.heap_size)

\* word k of the image in flash
ImageWord(slot, k) ==
    [lo |-> slot.data[4 * k + 1] + 256 * slot.data[4 * k + 2],
     hi |-> slot.data[4 * k + 3] + 256 * slot.data[4 * k + 4]]

\* the memory as the last load left it, before the reloc loop
Loaded(header) ==
    flash_load_app(arena_before, header,
                   header.app_size + (header.reloc_entries_count * 4))

\* the word index pass i of the reloc loop takes from got[i]
RelocTarget(header, i) ==
    ToInt(Div4(ReadWord(reloc_passes(Loaded(header), header, 0, i),
                        (header.app_size \div 4) + i)))

RelocEntries(slot) == 0..(slot.reloc_entries_count - 1)

\* C9: after relocation the word at every reloc offset holds the arena base
\* plus the byte offset the image held there.
C9_GotRelocation ==
    sup.pc = "bss" =>
        \A i \in RelocEntries(SupHeader) :
            ReadWord(app_stack_heap, RelocTarget(SupHeader, i)) =
                Add32(ARENA_BASE,
                      ReadWord(Loaded(SupHeader), RelocTarget(SupHeader, i)))

\* C10: after relocation the word at every reloc offset is an address inside
\* the arena.
C10_RelocatedInArena ==
    sup.pc = "bss" =>
        \A i \in RelocEntries(SupHeader) :
            LET w == ReadWord(app_stack_heap, RelocTarget(SupHeader, i))
            IN  /\ Le32(ARENA_BASE, w)
                /\ Lt32(w, Add32(ARENA_BASE, ToU32(MAX_APP_MEMORY_SIZE)))

\* a flash app has been loaded and its task created
FlashAppSpawned == task.alive /\ ~app_manifest[task.rec].is_internal

\* C11: when the task of a flash app is spawned, every arena byte in
\* [app_size, virtual_size) is zero, whatever the header holds.
C11_BssZero ==
    FlashAppSpawned =>
        \A i \in ArenaIdx :
            (i >= TaskHeader.app_size /\ i < TaskHeader.virtual_size) =>
                app_stack_heap.buf[i] = 0

\* the four bytes at sym_table_addr lie inside the image
SymLegal(header) == header.sym_table_addr + 4 <= header.app_size

\* C12: after a load the four arena bytes at sym_table_addr hold the address of
\* the host symbol table, least significant byte first, for every
\* sym_table_addr inside the image, the last four bytes of app_size included.
C12_SymbolPointer ==
    (FlashAppSpawned /\ SymLegal(TaskHeader)) =>
        LET a == TaskHeader.sym_table_addr
            b == app_stack_heap.buf
        IN  /\ b[a] + 256 * b[a + 1] = SYM_ADDR.lo
            /\ b[a + 2] + 256 * b[a + 3] = SYM_ADDR.hi

\* the pointer sits in the last four bytes of the image, on a word a reloc
\* entry names, and a bss follows
C12_Witness ==
    /\ FlashAppSpawned
    /\ TaskHeader.sym_table_addr + 4 = TaskHeader.app_size
    /\ TaskHeader.virtual_size > TaskHeader.app_size
    /\ \E i \in RelocEntries(TaskHeader) :
           4 * RelocTarget(TaskHeader, i) = TaskHeader.sym_table_addr

\* byte i lies in the range the memset of the bss covers
InBss(header, i) ==
    i >= header.app_size /\ Lt32(ToU32(i - header.app_size), bss_size(header))

\* byte i is one of the four the symbol pointer is written to
InSym(header, i) == i >= header.sym_table_addr /\ i < header.sym_table_addr + 4

\* the loader has made its last write of a load without reloc entries
LoadedNoReloc == sup.pc = "spawn" /\ SupHeader.reloc_entries_count = 0

\* C13 as stated: with no reloc entries a load changes nothing but the bytes
\* of the code copy and of the bss.
C13_OnlyCopyAndBss ==
    LoadedNoReloc =>
        \A i \in ArenaIdx :
            app_stack_heap.buf[i] =
                IF InBss(SupHeader, i) THEN 0
                ELSE IF i < SupHeader.app_size THEN SupHeader.data[i + 1]
                ELSE arena_before.buf[i]

\* C13: with no reloc entries a load changes nothing but the bytes of the
\* code copy, of the bss and the four bytes of the symbol pointer.
C13_OnlyCopyBssAndSym ==
    LoadedNoReloc =>
        \A i \in ArenaIdx :
            app_stack_heap.buf[i] =
                IF InSym(SupHeader, i)
                THEN BytesOf(SYM_ADDR)[(i - SupHeader.sym_table_addr) + 1]
                ELSE IF InBss(SupHeader, i) THEN 0
                ELSE IF i < SupHeader.app_size THEN SupHeader.data[i + 1]
                ELSE arena_before.buf[i]

\* a load without reloc entries, of code a reloc pass would have changed,
\* with a bss and bytes past it
C13_Witness ==
    /\ LoadedNoReloc
    /\ SupHeader.virtual_size > SupHeader.app_size
    /\ SupHeader.virtual_size < MAX_APP_MEMORY_SIZE
    /\ ImageWord(SupHeader, 0) = ToU32(6)

\* p is a prefix of q
IsPrefix(p, q) == Len(p) <= Len(q) /\ SubSeq(q, 1, Len(p)) = p

\* the records whose stored name is a prefix of the query
Hits(manifest, query) ==
    { k \in 1..Len(manifest) : IsPrefix(manifest[k].name, query) }

\* the first of a set of records, 0 when there is none
FirstOf(hits) ==
    IF hits = { } THEN 0 ELSE CHOOSE k \in hits : \A j \in hits : k <= j

\* C14: every lookup returns the first record, in insertion order, whose
\* stored name is a prefix of the query, and NULL exactly when there is none.
C14_PrefixLookup ==
    [][found' # found =>
           found'.node = FirstOf(Hits(app_manifest, found'.name))]_vars

\* with the manifest {"S", "System"}, get("System") returned the "S" record
C14_Witness ==
    /\ Len(app_manifest) = 2
    /\ app_manifest[1].name = NameS
    /\ app_manifest[2].name = NameSystem
    /\ found = [name |-> NameSystem, node |-> 1]

\* C15: the names of the manifest are unique, and the lookup of the exact
\* name of a record returns that record.
C15_UniqueNames ==
    \A k \in 1..Len(app_manifest) :
        /\ \A j \in 1..Len(app_manifest) :
               app_manifest[j].name = app_manifest[k].name => j = k
        /\ get_app(app_manifest, app_manifest[k].name) = k

\* the slots the scan probes whose header starts with the signature
AppSlots ==
    { i \in 0..(MAX_SLOTS - 1) :
        Len(flash[i].header) >= 6 /\ SubSeq(flash[i].header, 1, 6) = Magic }

\* the records of the manifest made from flash slot i
RecordsOf(i) ==
    { k \in 1..Len(app_manifest) :
        ~app_manifest[k].is_internal /\ app_manifest[k].slot_id = i }

\* C16: two scans of the same flash, the first from the empty manifest, leave
\* a manifest that holds each slot with the signature exactly once, when the
\* heap is not used up (no allocation of the scans failed).
C16_DiscoveryIdempotent ==
    (nScans = 2 /\ heap_free > 0) =>
        \A i \in AppSlots : Cardinality(RecordsOf(i)) = 1

\* the n-th slot with the signature, in ascending order
NthAppSlot(n) ==
    CHOOSE i \in AppSlots : Cardinality({ j \in AppSlots : j < i }) = n - 1

\* C17: after the initialisation the manifest is System, Simple, NiVZ and then
\* one watch face record, not internal, without entry point, for each of the
\* slots 0..31 whose header starts with the signature, in ascending order.
C17_ManifestAfterInit ==
    boot \in { "scanned", "done" } =>
        /\ Len(app_manifest) = 3 + Cardinality(AppSlots)
        /\ app_manifest[1] =
               [name |-> NameSystem, type |-> APP_TYPE_SYSTEM,
                main |-> "systemapp_main", is_internal |-> TRUE, slot_id |-> 0]
        /\ app_manifest[2] =
               [name |-> NameSimple, type |-> APP_TYPE_FACE,
                main |-> "simple_main", is_internal |-> TRUE, slot_id |-> 0]
        /\ app_manifest[3] =
               [name |-> NameNiVZ, type |-> APP_TYPE_FACE,
                main |-> "nivz_main", is_internal |-> TRUE, slot_id |-> 0]
        /\ \A n \in 1..Cardinality(AppSlots) :
               app_manifest[3 + n] =
                   [name |-> flash[NthAppSlot(n)].name, type |-> APP_TYPE_FACE,
                    main |-> "NULL", is_internal |-> FALSE,
                    slot_id |-> NthAppSlot(n)]

\* C18: the running-app pointer is NULL or a record of the manifest, and
\* outside the supervisor's steps from setting it to spawning the task, a
\* pointer that is not NULL designates the record of a task that is alive;
\* in particular it is NULL once the task has exited on Quit.
C18_RunningAppIsLive ==
    /\ running_app \in 0..Len(app_manifest)
    /\ (running_app # 0 /\ sup.pc # "delete" /\ ~SupBuilding) =>
           (task.alive /\ task.rec = running_app)

\* the loop that took the last message took a Quit
QuitTaken == delivered.kind = "QUIT" /\ task.t = delivered.inst_t

\* C19: a loop that receives Quit leaves no button and no tick registration
\* and its task ends; the next message taken from the event queue, if any, is
\* taken by the loop of another task.
C19_QuitEndsLoop ==
    /\ [](QuitTaken => (~task.alive /\ subscribed = NoSubscription))
    /\ [][(delivered.kind = "QUIT" /\ delivered' # delivered) =>
              delivered'.inst_t # delivered.inst_t]_vars

\* a loop took a Quit and ended with a button message behind the Quit still
\* in the event queue, no start pending
C19_Witness ==
    /\ QuitTaken
    /\ ~task.alive
    /\ sup.pc = "wait"
    /\ app_thread_queue = << >>
    /\ caller.pc = "idle"
    /\ app_message_queue # << >>
    /\ Head(app_message_queue).type = "BUTTON"
    /\ Head(app_message_queue).t > delivered.t

\* C20: the partition of every spawned app is exact: the stack is the top
\* MAX_APP_STACK_SIZE words of the arena, the heap starts at virtual_size (at
\* 0 for an internal app) and ends where the stack begins, its size not
\* wrapped around.
C20_PartitionExact ==
    task.alive =>
        LET base == IF app_manifest[task.rec].is_internal
                    THEN 0 ELSE TaskHeader.virtual_size
        IN  /\ partition.stack_entry = MAX_APP_MEMORY_SIZE - (MAX_APP_STACK_SIZE * 4)
            /\ partition.stack_size = MAX_APP_STACK_SIZE
            /\ partition.heap_entry = base
            /\ IsSmall(partition.heap_size)
            /\ base + ToInt(partition.heap_size) = partition.stack_entry

\* C21: the supervisor calls vTaskDelete through the saved handle only for a
\* task that is alive, never for one that deleted itself on Quit.
C21_NoStaleDelete == ~deleted_stale

\* C22: every read of the running-app pointer by an app task yields the record
\* the task was spawned from: at the entry of its loop, and in the handlers
\* its loop invokes, so that the outgoing app takes no step between the
\* supervisor's update of the pointer and the deletion of its task.
C22_TaskReadsOwnRecord ==
    /\ (task.alive /\ task.pc = "loop") => task.seen = task.rec
    /\ delivered.kind \in { "BUTTON", "TICK" } => delivered.read = delivered.by

\* a start request made while an app task was alive, for a name no record
\* of the manifest matches
NotFoundLive(req) == req.live /\ get_app(app_manifest, req.name) = 0

\* the stamps of such requests in progress: in appmanager_app_start, in the
\* thread queue, in the hands of the supervisor
NotFoundStarts ==
    (IF caller.pc = "send" /\ NotFoundLive(caller) THEN { caller.t } ELSE { })
        \cup { app_thread_queue[i].t : i \in
                 { j \in 1..Len(app_thread_queue) : NotFoundLive(app_thread_queue[j]) } }
        \cup (IF sup.pc \in { "reset", "lookup", "returned" } /\ NotFoundLive(sup)
              THEN { sup.t } ELSE { })

\* C23: a start whose name matches no record leaves the running app alone: no
\* Quit of that start is in the event queue or taken by the app's loop, and
\* the supervisor drains no pending event for it.
C23_NotFoundStartNoEffect ==
    /\ \A t \in NotFoundStarts :
           /\ \A i \in 1..Len(app_message_queue) :
                  ~(app_message_queue[i].type = "QUIT" /\ app_message_queue[i].t = t)
           /\ ~(delivered.kind = "QUIT" /\ delivered.t = t)
    /\ (sup.pc \in { "lookup", "returned" } /\ NotFoundLive(sup)) => ~sup.residue

\* C24: no step of the loader writes outside the arena, whatever the header
\* of the image holds.
C24_LoaderWritesInArena == ~app_stack_heap.oob

====
